---- MODULE Spec2Model ----
(***************************************************************************)
(* A model of the web-lab-starter backend: the StateStore (state_store.py), *)
(* the document schema (models.py), the ConnectionManager, the simulation   *)
(* loop, the command handler and the websocket endpoint (main.py), and the  *)
(* persisted snapshot row (db.py).                                          *)
(*                                                                          *)
(* A JSON value is a record [k, s, n, m, l]: k is its kind ("map", "list",  *)
(* "str", "int", "float", "null", "alert"), s the text of a string, n the   *)
(* number of an int or, for a float, the number in tenths, m the entries of *)
(* a mapping (a function of its keys) and l the elements of a list. An      *)
(* "alert" stands for one well-formed AlertState record (n its id, s the    *)
(* sensor it is about).                                                     *)
(***************************************************************************)
EXTENDS Integers, Sequences, FiniteSets, TLC

VARIABLES
    state,        \* StateStore._state
    persisted,    \* PersistedLabState.state_json of row 1
    connections,  \* ConnectionManager.connections, in insertion order
    wsOpen,       \* per websocket: "idle", "open", "closed" (by its client or with
                  \* its endpoint), "stalled", or "ended" (by close_all)
    channel,      \* per websocket: the messages its client has been sent
    pc,           \* per task: where the task is suspended
    loc,          \* per task: the locals of its broadcast_patch pass
    response,     \* per REST request task: the last response to its caller
    log,          \* version -> document the store held when it committed it
    ret,          \* the result of the last direct StateStore call
    returned,     \* the versions returned by successful direct apply_value calls
    clientId,     \* per websocket: the client_id of its path
    requests,     \* the commands the clients have sent, in order
    lock          \* StateStore._lock: the thread that holds it and how often

vars == <<state, persisted, connections, wsOpen, channel, pc, loc, response,
          log, ret, returned, clientId, requests, lock>>

----------------------------------------------------------------------------
(* Bounds of the model *)

MaxVersion == 3
MaxCalls == 2
MaxAlerts == 1
NumWs == 2
NumRest == 1
MaxRequests == 2
MaxCloses == 1

----------------------------------------------------------------------------
(* JSON values *)

V(k, s, n, m, l) == [k |-> k, s |-> s, n |-> n, m |-> m, l |-> l]
NullV == V("null", "", 0, <<>>, <<>>)
StrV(x) == V("str", x, 0, <<>>, <<>>)
IntV(i) == V("int", "", i, <<>>, <<>>)
FloatV(t) == V("float", "", t, <<>>, <<>>)
Alert(sensor, id) == V("alert", sensor, id, <<>>, <<>>)
MapV(f) == V("map", "", 0, f, <<>>)
ListV(q) == V("list", "", 0, <<>>, q)
EmptyMap == MapV(<<>>)

Keys(v) == DOMAIN v.m
Has(v, key) == v.k = "map" /\ key \in Keys(v)
\* v[key] = c
Put(v, key, c) == [v EXCEPT !.m = (key :> c) @@ @]
\* del v[key]
Del(v, key) == [v EXCEPT !.m = [x \in DOMAIN @ \ {key} |-> @[x]]]

\* The keys of list elements, as they appear in the paths of a patch.
IdxKeys == <<"0", "1", "2", "3", "4", "5", "6", "7">>
Idx(i) == IdxKeys[i + 1]
IdxNum(key) == CHOOSE i \in 0..(Len(IdxKeys) - 1) : Idx(i) = key

----------------------------------------------------------------------------
(* models.py: the schema *)

SensorStatuses == {"normal", "warning", "error"}

Sensor(value, unit, status) ==
    MapV([value |-> FloatV(value), unit |-> StrV(unit), status |-> StrV(status)])

DefaultState ==
    MapV([sensors |-> MapV([temperature |-> Sensor(225, "C", "normal"),
                            pressure |-> Sensor(10132, "hPa", "normal"),
                            humidity |-> Sensor(452, "%", "normal")]),
          equipment |-> MapV([pump_1 |-> MapV([status |-> StrV("running"),
                                               speed |-> IntV(1200)]),
                              valve_a |-> MapV([status |-> StrV("open"),
                                                position |-> StrV("open"),
                                                angle |-> IntV(90)])]),
          alerts |-> ListV(<<>>),
          version |-> IntV(1)])

HasKind(v, key, kinds) == key \in Keys(v) /\ v.m[key].k \in kinds

\* SensorState: value: float, unit: str, status: Literal[...] = "normal".
ValidSensor(v) ==
    /\ v.k = "map"
    /\ HasKind(v, "value", {"float", "int"})
    /\ HasKind(v, "unit", {"str"})
    /\ \/ "status" \notin Keys(v)
       \/ v.m["status"].k = "str" /\ v.m["status"].s \in SensorStatuses

\* EquipmentState: status: str, extra fields allowed.
ValidEquipment(v) ==
    /\ v.k = "map"
    /\ HasKind(v, "status", {"str"})

\* version: int = 1 (an integral float is accepted and converted).
ValidVersion(d) ==
    \/ "version" \notin Keys(d)
    \/ d.m["version"].k = "int"
    \/ d.m["version"].k = "float" /\ d.m["version"].n % 10 = 0

\* LabStateModel.model_validate succeeds.
Valid(d) ==
    /\ d.k = "map"
    /\ HasKind(d, "sensors", {"map"})
    /\ \A key \in Keys(d.m["sensors"]) : ValidSensor(d.m["sensors"].m[key])
    /\ HasKind(d, "equipment", {"map"})
    /\ \A key \in Keys(d.m["equipment"]) : ValidEquipment(d.m["equipment"].m[key])
    /\ HasKind(d, "alerts", {"list"})
    /\ \A i \in 1..Len(d.m["alerts"].l) : d.m["alerts"].l[i].k = "alert"
    /\ ValidVersion(d)

\* model_dump of a validated SensorState: the three declared fields (extra
\* fields are ignored), the value as a float, the status defaulted.
DumpSensor(v) ==
    MapV([value |-> IF v.m["value"].k = "int" THEN FloatV(v.m["value"].n * 10)
                    ELSE v.m["value"],
          unit |-> v.m["unit"],
          status |-> IF "status" \in Keys(v) THEN v.m["status"] ELSE StrV("normal")])

\* model_dump of the validated version field.
DumpVersion(d) ==
    IF "version" \notin Keys(d) THEN IntV(1)
    ELSE IF d.m["version"].k = "float" THEN IntV(d.m["version"].n \div 10)
    ELSE d.m["version"]

\* validated.model_dump(mode="json") of a valid document: the four declared
\* fields (extra top-level fields are ignored); equipment entries keep their
\* extra fields.
Normalize(d) ==
    MapV([sensors |-> MapV([key \in Keys(d.m["sensors"]) |->
                               DumpSensor(d.m["sensors"].m[key])]),
          equipment |-> d.m["equipment"],
          alerts |-> d.m["alerts"],
          version |-> DumpVersion(d)])

----------------------------------------------------------------------------
(* jsonpatch: make_patch, and the application of a patch by an observer *)

Op(kind, path, value) == [op |-> kind, path |-> path, value |-> value]

\* jsonpatch.make_patch(old, new): DiffBuilder descends into two mappings (or
\* two lists) found at the same place, and any other pair of values is
\* replaced unless their JSON texts are equal. Operations on the keys of one
\* mapping touch disjoint subtrees; their order in the patch (the iteration
\* order of a Python set) is not significant and is fixed here. A list is
\* compared index by index: the surplus of the new list is added in ascending
\* order, the surplus of the old list is removed at the index where the new
\* list ends.
RECURSIVE Diff(_, _, _)
Diff(path, a, b) ==
    LET RECURSIVE OverKeys(_)
        OverKeys(S) ==
            IF S = {} THEN <<>>
            ELSE LET key == CHOOSE key \in S : TRUE
                     sub == path \o <<key>>
                     ops == IF key \notin Keys(b) THEN <<Op("remove", sub, NullV)>>
                            ELSE IF key \notin Keys(a) THEN <<Op("add", sub, b.m[key])>>
                            ELSE Diff(sub, a.m[key], b.m[key])
                 IN ops \o OverKeys(S \ {key})
        RECURSIVE OverIndex(_)
        OverIndex(i) ==
            IF i > Len(a.l) /\ i > Len(b.l) THEN <<>>
            ELSE LET ops == IF i > Len(b.l)
                              THEN <<Op("remove", path \o <<Idx(Len(b.l))>>, NullV)>>
                            ELSE IF i > Len(a.l)
                              THEN <<Op("add", path \o <<Idx(i - 1)>>, b.l[i])>>
                            ELSE Diff(path \o <<Idx(i - 1)>>, a.l[i], b.l[i])
                 IN ops \o OverIndex(i + 1)
    IN IF a.k = "map" /\ b.k = "map"
         THEN OverKeys({key \in Keys(a) \cup Keys(b) :
                          key \notin Keys(a) \/ key \notin Keys(b)
                          \/ a.m[key] /= b.m[key]})
       ELSE IF a.k = "list" /\ b.k = "list" THEN OverIndex(1)
       ELSE IF a = b THEN <<>>
       ELSE <<Op("replace", path, b)>>

MakePatch(old, new) == Diff(<<>>, old, new)

\* a sequence without its i-th element, and with x put in before its i-th
SeqRemove(q, i) == SubSeq(q, 1, i - 1) \o SubSeq(q, i + 1, Len(q))
SeqInsert(q, i, x) == SubSeq(q, 1, i - 1) \o <<x>> \o SubSeq(q, i, Len(q))

\* One operation of a JSON patch (RFC 6902) applied to the value v: add,
\* replace or remove at the path.
RECURSIVE PatchAt(_, _, _)
PatchAt(v, path, o) ==
    LET key == Head(path)
        i == IdxNum(key) + 1
    IN IF Len(path) = 1
         THEN IF v.k = "list"
                THEN CASE o.op = "add" -> [v EXCEPT !.l = SeqInsert(@, i, o.value)]
                       [] o.op = "remove" -> [v EXCEPT !.l = SeqRemove(@, i)]
                       [] OTHER -> [v EXCEPT !.l[i] = o.value]
                ELSE IF o.op = "remove" THEN Del(v, key) ELSE Put(v, key, o.value)
         ELSE IF v.k = "list"
                THEN [v EXCEPT !.l[i] = PatchAt(@, Tail(path), o)]
                ELSE Put(v, key, PatchAt(v.m[key], Tail(path), o))

ApplyOp(d, o) == IF o.path = <<>> THEN o.value ELSE PatchAt(d, o.path, o)

\* The operations of a patch applied in list order.
RECURSIVE ApplyPatch(_, _)
ApplyPatch(d, patch) ==
    IF patch = <<>> THEN d
    ELSE ApplyPatch(ApplyOp(d, Head(patch)), Tail(patch))

----------------------------------------------------------------------------
(* state_store.py: StateStore *)

\* json.loads(json.dumps(v)): every value is written as JSON text and read
\* back; a float stays a float (22.0 is written "22.0"), keys are strings.
RECURSIVE JsonRoundTrip(_)
JsonRoundTrip(v) ==
    CASE v.k = "map" -> MapV([key \in Keys(v) |-> JsonRoundTrip(v.m[key])])
      [] v.k = "list" -> ListV([i \in 1..Len(v.l) |-> JsonRoundTrip(v.l[i])])
      [] v.k = "str" -> StrV(v.s)
      [] v.k = "int" -> IntV(v.n)
      [] v.k = "float" -> FloatV(v.n)
      [] OTHER -> v

\* StateStore.snapshot
Snapshot(d) == JsonRoundTrip(d)

\* path.strip("/").split("/") without the empty segments
ParsePath(segs) == SelectSeq(segs, LAMBDA key : key /= "")

\* StateStore.get: the value at the path, or a KeyError.
RECURSIVE Lookup(_, _)
Lookup(v, keys) ==
    IF keys = <<>> THEN [ok |-> TRUE, value |-> v]
    ELSE IF Has(v, Head(keys)) THEN Lookup(v.m[Head(keys)], Tail(keys))
    ELSE [ok |-> FALSE, value |-> NullV]

Get(d, segs) == Lookup(d, ParsePath(segs))

\* the walk with a test that only looks for missing keys: below a value
\* that is not a dict nothing can be set
WalkMissingOnly(current, keys, value) ==
    LET RECURSIVE Step(_, _)
        Step(c, ks) ==
            LET key == Head(ks)
            IN IF c.k /= "map" THEN c
               ELSE IF Len(ks) = 1 THEN Put(c, key, value)
               ELSE Put(c, key, Step(IF key \notin Keys(c) THEN EmptyMap ELSE c.m[key],
                                     Tail(ks)))
    IN Step(current, keys)

\* The walk and the write of apply_value (lines 45-50): every intermediate
\* key that is missing or is not a dict becomes an empty dict.
RECURSIVE Walk(_, _, _)
Walk(current, keys, value) ==
    LET key == Head(keys)
        next == IF key \notin Keys(current) \/ current.m[key].k /= "map"
                  THEN EmptyMap ELSE current.m[key]
    IN IF Len(keys) = 1 THEN Put(current, key, value)
       ELSE Put(current, key, Walk(next, Tail(keys), value))

\* int(x) of line 52 succeeds on a number (a float is truncated).
IntOk(v) == v.k \in {"int", "float"}
IntOf(v) == IF v.k = "float" THEN v.n \div 10 ELSE v.n

\* self._state.get("version", 0)
CurrentVersion(d) == IF "version" \in Keys(d) THEN d.m["version"] ELSE IntV(0)

\* self._state["version"] = int(self._state.get("version", 0)) + 1
BumpVersion(d) == Put(d, "version", IntV(IntOf(CurrentVersion(d)) + 1))

\* The document the diff of apply_value starts from (line 40).
OldState(d) == JsonRoundTrip(d)

\* apply_value with lines 53 and 55 exchanged: the patch is computed before
\* the validation has normalised the document.
ApplyValueDiffFirst(d, segs, value) ==
    LET keys == ParsePath(segs)
        old == OldState(d)
        written == Walk(d, keys, value)
        bumped == BumpVersion(written)
        new == Normalize(bumped)
        none == [patch |-> <<>>, version |-> 0]
    IN IF keys = <<>>
         THEN [status |-> "empty_path", state |-> d] @@ none
       ELSE IF ~IntOk(CurrentVersion(written))
         THEN [status |-> "version_error", state |-> written] @@ none
       ELSE IF ~Valid(bumped)
         THEN [status |-> "validation_error", state |-> bumped] @@ none
       ELSE [status |-> "ok", state |-> new,
             patch |-> MakePatch(old, bumped), version |-> new.m["version"].n]

\* apply_value with a rollback: a failed validation restores the document
ApplyValueRollback(d, segs, value) ==
    LET keys == ParsePath(segs)
        old == OldState(d)
        written == Walk(d, keys, value)
        bumped == BumpVersion(written)
        new == Normalize(bumped)
        none == [patch |-> <<>>, version |-> 0]
    IN IF keys = <<>>
         THEN [status |-> "empty_path", state |-> d] @@ none
       ELSE IF ~IntOk(CurrentVersion(written))
         THEN [status |-> "version_error", state |-> written] @@ none
       ELSE IF ~Valid(bumped)
         THEN [status |-> "validation_error", state |-> old] @@ none
       ELSE [status |-> "ok", state |-> new,
             patch |-> MakePatch(old, new), version |-> new.m["version"].n]

\* StateStore.apply_value(path, value) on the live document d: the outcome,
\* the live document it leaves behind, and the patch and version it returns.
ApplyValue(d, segs, value) ==
    LET keys == ParsePath(segs)
        old == OldState(d)
        written == Walk(d, keys, value)
        bumped == BumpVersion(written)
        new == Normalize(bumped)
        none == [patch |-> <<>>, version |-> 0]
    IN IF keys = <<>>
         THEN [status |-> "empty_path", state |-> d] @@ none
       ELSE IF ~IntOk(CurrentVersion(written))
         THEN [status |-> "version_error", state |-> written] @@ none
       ELSE IF ~Valid(bumped)
         THEN [status |-> "validation_error", state |-> bumped] @@ none
       ELSE [status |-> "ok", state |-> new,
             patch |-> MakePatch(old, new), version |-> new.m["version"].n]

VersionOf(d) ==
    IF HasKind(d, "version", {"int"}) THEN d.m["version"].n ELSE -1

\* threading.RLock: nobody holds it. The methods of the store take and give
\* it back within one synchronous call, so between the steps of the tasks of
\* the event loop it is always free.
Unlocked == [owner |-> 0, count |-> 0]

----------------------------------------------------------------------------
(* Direct callers of the StateStore: any caller holding the store may call  *)
(* get, snapshot and apply_value with any path and any JSON value.          *)

AlertList1 == ListV(<<Alert("temperature", 1)>>)

StorePaths ==
    { <<"sensors", "temperature", "value">>,
      <<"sensors", "temperature", "status">>,
      <<"", "equipment", "", "new_device", "status">>,
      <<"equipment", "pump_1", "speed", "rpm">>,
      <<"alerts">>,
      <<"version">>,
      <<"extra">>,
      <<"">> }

StoreValues ==
    { StrV("warning"), IntV(7), FloatV(215), AlertList1 }

\* The paths direct callers read: one that exists and one that does not.
GetPaths == { <<"equipment", "pump_1", "status">>, <<"equipment", "pump_2">> }

\* The documents the store may be constructed with (lifespan: the default
\* state, or a persisted state of an earlier run).
InitDocs ==
    { DefaultState,
      [DefaultState EXCEPT !.m.version = IntV(2),
                           !.m.equipment.m.pump_1.m.status = StrV("stopped")] }

\* The record of the last direct call: the operation and its outcome, the
\* document before it (old), its arguments (path, arg), what it returned
\* (patch, version, value), the number of mutating calls so far, and good:
\* the documents the store was constructed with or that a successfully
\* completed mutation produced.
NoRet == [op |-> "none", status |-> "none", old |-> NullV, patch |-> <<>>,
          version |-> 0, value |-> NullV, calls |-> 0, start |-> 0,
          path |-> <<>>, arg |-> NullV, good |-> {}]

\* a direct call of apply_value
StoreApplyValue(segs, value) ==
    /\ ret.calls < MaxCalls
    /\ LET r == ApplyValue(state, segs, value)
       IN /\ state' = r.state
          /\ ret' = [ret EXCEPT !.op = "apply_value", !.status = r.status,
                                !.old = Snapshot(state), !.patch = r.patch,
                                !.version = r.version, !.value = NullV,
                                !.path = segs, !.arg = value,
                                !.good = IF r.status = "ok"
                                           THEN @ \cup {Snapshot(r.state)} ELSE @,
                                !.calls = @ + 1,
                                !.start = IF r.status = "ok" THEN @
                                          ELSE VersionOf(r.state)]
          /\ returned' = IF r.status = "ok" THEN Append(returned, r.version)
                         ELSE <<>>
    /\ UNCHANGED <<lock, persisted, connections, wsOpen, channel, pc, loc, response, log, clientId, requests>>

\* a direct call of get
StoreGet(segs) ==
    /\ LET r == Get(state, segs)
       IN ret' = [ret EXCEPT !.op = "get",
                             !.status = IF r.ok THEN "ok" ELSE "key_error",
                             !.old = Snapshot(state), !.patch = <<>>,
                             !.path = segs, !.arg = NullV,
                             !.version = 0, !.value = r.value]
    /\ UNCHANGED <<lock, state, returned, persisted, connections, wsOpen, channel, pc, loc,
                   response, log, clientId, requests>>

\* a direct call of snapshot
StoreSnapshot ==
    /\ ret' = [ret EXCEPT !.op = "snapshot", !.status = "ok",
                          !.old = Snapshot(state), !.patch = <<>>,
                          !.path = <<>>, !.arg = NullV,
                          !.version = 0, !.value = Snapshot(state)]
    /\ UNCHANGED <<lock, state, returned, persisted, connections, wsOpen, channel, pc, loc,
                   response, log, clientId, requests>>

StoreInit ==
    /\ state \in InitDocs
    /\ persisted = state
    /\ connections = <<>>
    /\ wsOpen = <<>>
    /\ channel = <<>>
    /\ pc = <<>>
    /\ loc = <<>>
    /\ response = <<>>
    /\ log = <<>>
    /\ ret = [NoRet EXCEPT !.start = VersionOf(state), !.good = {Snapshot(state)}]
    /\ returned = <<>>
    /\ clientId = <<>>
    /\ requests = <<>>
    /\ lock = Unlocked

StoreNext ==
    \/ \E segs \in StorePaths, value \in StoreValues : StoreApplyValue(segs, value)
    \/ \E segs \in GetPaths : StoreGet(segs)
    \/ StoreSnapshot

StoreSpec == StoreInit /\ [][StoreNext]_vars

\* replace_state with validation and assignment exchanged: the document is
\* assigned before it is validated
ReplaceStateAssignFirst(d, doc) ==
    IF Valid(doc) THEN [status |-> "ok", state |-> Normalize(doc)]
    ELSE [status |-> "validation_error", state |-> doc]

\* StateStore.replace_state(doc) on the live document d: model_validate
\* raises and nothing is assigned, or the dump of the validated document
\* becomes the live document.
ReplaceState(d, doc) ==
    IF Valid(doc) THEN [status |-> "ok", state |-> Normalize(doc)]
    ELSE [status |-> "validation_error", state |-> d]

\* The documents direct callers replace the state with: a valid one (with an
\* integer reading and an extra field, which the dump normalises), one whose
\* sensor status is not allowed, and one that lacks the equipment.
ReplaceDocs ==
    { [DefaultState EXCEPT !.m.version = IntV(5),
                           !.m.sensors.m.temperature.m.value = IntV(21),
                           !.m.sensors.m.temperature.m = ("note" :> StrV("x")) @@ @],
      [DefaultState EXCEPT !.m.version = IntV(5),
                           !.m.sensors.m.humidity.m.status = StrV("broken")],
      Del(DefaultState, "equipment") }

\* a direct call of replace_state
StoreReplaceState(doc) ==
    /\ ret.calls < MaxCalls
    /\ LET r == ReplaceState(state, doc)
       IN /\ state' = r.state
          /\ ret' = [ret EXCEPT !.op = "replace_state", !.status = r.status,
                                !.old = Snapshot(state), !.patch = <<>>,
                                !.version = 0, !.value = NullV,
                                !.path = <<>>, !.arg = doc,
                                !.good = IF r.status = "ok"
                                           THEN @ \cup {Snapshot(r.state)} ELSE @,
                                !.calls = @ + 1,
                                !.start = VersionOf(r.state)]
          /\ returned' = <<>>
    /\ UNCHANGED <<lock, persisted, connections, wsOpen, channel, pc, loc, response, log,
                   clientId, requests>>

StoreReplaceNext ==
    \/ StoreNext
    \/ \E doc \in ReplaceDocs : StoreReplaceState(doc)

\* the StateStore with all five of its methods called directly
StoreReplaceSpec == StoreInit /\ [][StoreReplaceNext]_vars

----------------------------------------------------------------------------
(* The StateStore called from several threads: each method is a sequence of *)
(* steps between which the threads may be switched.                         *)

MaxThreads == 2
MaxThreadCalls == 2
Threads == 1..MaxThreads

Call(op, path, arg) == [op |-> op, path |-> path, arg |-> arg]
ThreadCalls ==
    { Call("apply_value", <<"sensors", "temperature", "value">>, FloatV(215)),
      Call("apply_value", <<"equipment", "pump_1", "status">>, StrV("warning")),
      Call("apply_value", <<"alerts">>, StrV("warning")),
      Call("apply_value", <<"">>, IntV(7)),
      Call("get", <<"equipment", "pump_1", "status">>, NullV),
      Call("snapshot", <<>>, NullV),
      Call("replace_state", <<>>, [DefaultState EXCEPT !.m.version = IntV(5)]),
      Call("replace_state", <<>>, Del(DefaultState, "equipment")) }

\* the locals of a thread in a method: its call, the document it found when
\* it got the lock (entry), old_state, what it returns, and its calls so far
NoCall == [op |-> "none", path |-> <<>>, arg |-> NullV, entry |-> NullV,
           old |-> NullV, validated |-> NullV, status |-> "none",
           patch |-> <<>>, version |-> 0, value |-> NullV, calls |-> 0]

\* a lock that lets every thread in
AcquirableAlways(l, t) == TRUE

\* RLock.acquire: the lock is free, or held by the thread itself
Acquirable(l, t) == l.owner \in {0, t}

Acquired(l, t) == [owner |-> t, count |-> l.count + 1]
Released(l) == IF l.count <= 1 THEN Unlocked ELSE [l EXCEPT !.count = @ - 1]

\* the first step of each method inside `with self._lock`
FirstPc(op) ==
    CASE op = "apply_value" -> "capture"
      [] op = "get" -> "read"
      [] op = "snapshot" -> "copy"
      [] OTHER -> "validate_new"

ThreadUnchanged ==
    UNCHANGED <<persisted, connections, wsOpen, channel, response, log, ret,
                returned, clientId, requests>>

\* a thread calls a method and arrives at `with self._lock`
ThreadCall(t, c) ==
    /\ pc[t] = "idle"
    /\ loc[t].calls < MaxThreadCalls
    /\ pc' = [pc EXCEPT ![t] = "lock"]
    /\ loc' = [loc EXCEPT ![t] = [NoCall EXCEPT !.op = c.op, !.path = c.path,
                                                !.arg = c.arg,
                                                !.calls = loc[t].calls + 1]]
    /\ UNCHANGED <<state, lock>>
    /\ ThreadUnchanged

\* the thread gets the lock and enters the body
ThreadAcquire(t) ==
    /\ pc[t] = "lock"
    /\ Acquirable(lock, t)
    /\ lock' = Acquired(lock, t)
    /\ pc' = [pc EXCEPT ![t] = FirstPc(loc[t].op)]
    /\ loc' = [loc EXCEPT ![t].entry = state]
    /\ UNCHANGED state
    /\ ThreadUnchanged

\* one step of apply_value: line 40, lines 41-50, line 52, line 53, lines 55-56
ThreadApplyValue(t) ==
    /\ pc[t] \in {"capture", "write", "bump", "validate", "diff"}
    /\ LET l == loc[t]
           keys == ParsePath(l.path)
           raise(status) == /\ pc' = [pc EXCEPT ![t] = "release"]
                            /\ loc' = [loc EXCEPT ![t].status = status]
                            /\ UNCHANGED state
       IN CASE pc[t] = "capture" ->
                 /\ loc' = [loc EXCEPT ![t].old = OldState(state)]
                 /\ pc' = [pc EXCEPT ![t] = "write"]
                 /\ UNCHANGED state
            [] pc[t] = "write" ->
                 IF keys = <<>> THEN raise("empty_path")
                 ELSE /\ state' = Walk(state, keys, l.arg)
                      /\ pc' = [pc EXCEPT ![t] = "bump"]
                      /\ UNCHANGED loc
            [] pc[t] = "bump" ->
                 IF ~IntOk(CurrentVersion(state)) THEN raise("version_error")
                 ELSE /\ state' = BumpVersion(state)
                      /\ pc' = [pc EXCEPT ![t] = "validate"]
                      /\ UNCHANGED loc
            [] pc[t] = "validate" ->
                 IF ~Valid(state) THEN raise("validation_error")
                 ELSE /\ state' = Normalize(state)
                      /\ pc' = [pc EXCEPT ![t] = "diff"]
                      /\ UNCHANGED loc
            [] OTHER ->
                 /\ loc' = [loc EXCEPT ![t].status = "ok",
                                       ![t].patch = MakePatch(l.old, state),
                                       ![t].version = IntOf(state.m["version"])]
                 /\ pc' = [pc EXCEPT ![t] = "release"]
                 /\ UNCHANGED state
    /\ UNCHANGED lock
    /\ ThreadUnchanged

\* the body of get and of snapshot
ThreadRead(t) ==
    /\ pc[t] \in {"read", "copy"}
    /\ LET r == Get(state, loc[t].path)
       IN loc' = [loc EXCEPT ![t].status = IF pc[t] = "copy" \/ r.ok THEN "ok"
                                          ELSE "key_error",
                             ![t].value = IF pc[t] = "copy" THEN Snapshot(state)
                                          ELSE r.value]
    /\ pc' = [pc EXCEPT ![t] = "release"]
    /\ UNCHANGED <<state, lock>>
    /\ ThreadUnchanged

\* one step of replace_state: line 23, line 24
ThreadReplace(t) ==
    /\ pc[t] \in {"validate_new", "assign"}
    /\ IF pc[t] = "validate_new"
         THEN /\ IF Valid(loc[t].arg)
                   THEN /\ loc' = [loc EXCEPT ![t].validated = Normalize(loc[t].arg)]
                        /\ pc' = [pc EXCEPT ![t] = "assign"]
                   ELSE /\ loc' = [loc EXCEPT ![t].status = "validation_error"]
                        /\ pc' = [pc EXCEPT ![t] = "release"]
              /\ UNCHANGED state
         ELSE /\ state' = loc[t].validated
              /\ loc' = [loc EXCEPT ![t].status = "ok"]
              /\ pc' = [pc EXCEPT ![t] = "release"]
    /\ UNCHANGED lock
    /\ ThreadUnchanged

\* the end of the with block, by a return or by an exception
ThreadRelease(t) ==
    /\ pc[t] = "release"
    /\ lock' = Released(lock)
    /\ pc' = [pc EXCEPT ![t] = "idle"]
    /\ UNCHANGED <<state, loc>>
    /\ ThreadUnchanged

ThreadInit ==
    /\ state = DefaultState
    /\ persisted = state
    /\ connections = <<>>
    /\ wsOpen = <<>>
    /\ channel = <<>>
    /\ pc = [t \in Threads |-> "idle"]
    /\ loc = [t \in Threads |-> NoCall]
    /\ response = <<>>
    /\ log = <<>>
    /\ ret = NoRet
    /\ returned = <<>>
    /\ clientId = <<>>
    /\ requests = <<>>
    /\ lock = Unlocked

ThreadNext ==
    \/ \E t \in Threads, c \in ThreadCalls : ThreadCall(t, c)
    \/ \E t \in Threads : ThreadAcquire(t)
    \/ \E t \in Threads : ThreadApplyValue(t)
    \/ \E t \in Threads : ThreadRead(t)
    \/ \E t \in Threads : ThreadReplace(t)
    \/ \E t \in Threads : ThreadRelease(t)

ThreadSpec == ThreadInit /\ [][ThreadNext]_vars

----------------------------------------------------------------------------
(* main.py: tasks of the event loop, websockets and the ConnectionManager   *)
(*                                                                          *)
(* All handlers run as tasks of one asyncio event loop (workers=1): a task  *)
(* runs without interruption from one suspension to the next. The calls of  *)
(* the StateStore and of the database are synchronous. The suspension       *)
(* points are the awaits on the network and on the clock: accept,           *)
(* receive_json, send_json and sleep.                                       *)

WS == 1..NumWs
SimTask == 0
RestTasks == (NumWs + 1)..(NumWs + NumRest)
CmdTasks == 1..(NumWs + NumRest)
\* the task that runs lifespan: it serves until the shutdown
LifespanTask == NumWs + NumRest + 1
Tasks == 0..(NumWs + NumRest + 1)

\* The client_id of the path /ws/{client_id} a websocket connects with: any
\* client may connect again while its earlier connection is still known, so
\* a websocket may come with the client_id of an earlier one or with a new one.
ClientIds(w) == 1..w
ClientIdOf(w) == clientId[w]

PassPcs == {"pass", "pass1", "pass2"}

NoLoc == [items |-> <<>>, idx |-> 0, disconnected |-> <<>>, patch |-> <<>>,
          version |-> 0, sensor |-> ""]

NoResponse == [command |-> "", status |-> "none", detail |-> <<>>, version |-> 0]

\* The messages of the wire format.
InitialMsg(d) == [type |-> "initial_state", data |-> d, patch |-> <<>>,
                  version |-> 0, error |-> <<>>]
PatchMsg(patch, version) == [type |-> "patch", data |-> NullV, patch |-> patch,
                             version |-> version, error |-> <<>>]
ErrorMsg(detail) == [type |-> "command_error", data |-> NullV, patch |-> <<>>,
                     version |-> 0, error |-> detail]

\* self.connections is a dict: an insertion-ordered list of (client_id, websocket).
Registered(conns, w) == \E i \in 1..Len(conns) : conns[i].ws = w

\* self.connections[client_id] = websocket
RegSet(conns, cid, w) ==
    IF \E i \in 1..Len(conns) : conns[i].cid = cid
      THEN [i \in 1..Len(conns) |->
              IF conns[i].cid = cid THEN [cid |-> cid, ws |-> w] ELSE conns[i]]
      ELSE Append(conns, [cid |-> cid, ws |-> w])

\* self.connections.pop(client_id, None), for each client_id of cids
RegPop(conns, cids) == SelectSeq(conns, LAMBDA e : e.cid \notin cids)

\* `async with self._lock` as if it suspended its caller every time
SuspendsAtLockAlways == TRUE

\* asyncio.Lock: `async with self._lock` suspends the caller only when the
\* lock is held. Every body that holds the lock has no await in it, so in
\* one event loop the lock is never found held and neither entering nor
\* leaving the block suspends.
SuspendsAtLock == FALSE

\* websocket.send_json(msg): the message is written to the connection when
\* send_json is called; on a connection the client has closed it raises. To
\* a client that has stopped reading nothing is delivered and nothing is
\* raised: the await does not return (Blocked).
SendJson(ch, open, w, msg) ==
    IF open[w] = "open"
      THEN [ok |-> TRUE, channel |-> [ch EXCEPT ![w] = Append(@, msg)]]
      ELSE [ok |-> open[w] = "stalled", channel |-> ch]

\* the pass is suspended in `await websocket.send_json(message)` (line 59)
\* on a client that had stopped reading before the message was sent: the
\* code sets no timeout, so the task is not resumed while the client stays so
Blocked(l) ==
    /\ l.idx > 0
    /\ wsOpen[l.items[l.idx].ws] = "stalled"
    /\ \A k \in 1..Len(channel[l.items[l.idx].ws]) :
          channel[l.items[l.idx].ws][k] /= PatchMsg(l.patch, l.version)

\* items = list(self.connections.items())
PassItems(conns) == conns

\* One iteration of the loop of broadcast_patch (lines 57-61).
PassSend(l, ch, open) ==
    LET e == l.items[l.idx + 1]
        r == SendJson(ch, open, e.ws, PatchMsg(l.patch, l.version))
    IN [loc |-> [l EXCEPT !.idx = @ + 1,
                         !.disconnected = IF r.ok THEN @ ELSE Append(@, e.cid)],
        channel |-> r.channel]

\* broadcast_patch up to its first suspension: the items are captured and the
\* first of them is sent the message; with no items the pass is over at once.
BeginPass(conns, patch, version, sensor, ch, open) ==
    LET l0 == [items |-> PassItems(conns), idx |-> 0, disconnected |-> <<>>,
               patch |-> patch, version |-> version, sensor |-> sensor]
    IN IF l0.items = <<>>
         THEN [done |-> TRUE, loc |-> l0, channel |-> ch]
         ELSE [done |-> FALSE] @@ PassSend(l0, ch, open)

\* The removal that ends broadcast_patch (lines 63-66).
PassRemove(conns, l) ==
    RegPop(conns, {l.disconnected[i] : i \in 1..Len(l.disconnected)})

\* The record kept of a committed version: the document, who committed it,
\* the patch apply_value returned, and the items of its broadcast pass.
Entry(r, src, from, bcast, items) ==
    [doc |-> Snapshot(r.state), src |-> src, from |-> from, patch |-> r.patch,
     bcast |-> bcast, items |-> {items[i].ws : i \in 1..Len(items)}]

\* the variables a step of a task works on
World(t) == [state |-> state, persisted |-> persisted, connections |-> connections,
             channel |-> channel, log |-> log, pc |-> pc[t], loc |-> loc[t]]

Assign(t, W) ==
    /\ state' = W.state
    /\ persisted' = W.persisted
    /\ connections' = W.connections
    /\ channel' = W.channel
    /\ log' = W.log
    /\ pc' = [pc EXCEPT ![t] = W.pc]
    /\ loc' = [loc EXCEPT ![t] = W.loc]

\* apply_value followed by broadcast_patch, up to the first suspension of the
\* pass: W with the version committed and the pass begun; the pc is passPc
\* when the pass is suspended, and "" when it is over without a suspension.
CommitAndBroadcast(W, r, src, sensor, passPc) ==
    LET b == BeginPass(W.connections, r.patch, r.version, sensor, W.channel, wsOpen)
    IN [W EXCEPT !.state = r.state,
                 !.log = (r.version :> Entry(r, src, VersionOf(W.state), TRUE,
                                            PassItems(W.connections))) @@ @,
                 !.channel = b.channel,
                 !.loc = b.loc,
                 !.pc = IF b.done THEN "" ELSE passPc]

----------------------------------------------------------------------------
(* _simulation_loop *)

SimSensors == {"temperature"}
\* the change of one iteration: a new value, or a new status
SimChanges == {"value"}
\* round(22 + random.uniform(-2, 2), 1) and the like: one reading per sensor
SimValue(sensor) ==
    CASE sensor = "temperature" -> FloatV(231)
      [] sensor = "pressure" -> FloatV(10150)
      [] OTHER -> FloatV(440)

\* lines 128-131: the periodic save, which ends the iteration
SimPersist(W, persist) ==
    [W EXCEPT !.persisted = IF persist THEN Snapshot(W.state) ELSE @,
              !.pc = "sleep", !.loc = NoLoc]

\* lines 115-126: with probability 0.1 an alert is appended and broadcast
SimAlert(W, sensor, alert, persist) ==
    LET alerts == Get(W.state, <<"alerts">>).value
        n == Len(alerts.l)
        appended == [alerts EXCEPT !.l = Append(@, Alert(sensor, n + 1))]
        r == ApplyValue(W.state, <<"alerts">>, appended)
        W1 == CommitAndBroadcast(W, r, "alert", sensor, "pass2")
    IN IF alert
         THEN IF W1.pc = "" THEN SimPersist(W1, persist) ELSE W1
         ELSE SimPersist(W, persist)

\* the outcomes of random.random() < 0.1 the bounds leave room for
MayAlert(W) ==
    IF Len(Get(W.state, <<"alerts">>).value.l) < MaxAlerts
       /\ VersionOf(W.state) < MaxVersion
      THEN BOOLEAN ELSE {FALSE}

\* the rest of an iteration after its first pass
SimAfterPass(W, sensor) ==
    \E alert \in MayAlert(W), persist \in BOOLEAN :
        Assign(SimTask, SimAlert(W, sensor, alert, persist))

\* lines 93-113: the loop wakes, changes one sensor and broadcasts the patch
SimWake(sensor, change) ==
    /\ pc[SimTask] = "sleep"
    /\ VersionOf(state) < MaxVersion
    /\ LET r == IF change = "value"
                  THEN ApplyValue(state, <<"sensors", sensor, "value">>,
                                  SimValue(sensor))
                  ELSE ApplyValue(state, <<"sensors", sensor, "status">>,
                                  StrV(change))
           W1 == CommitAndBroadcast(World(SimTask), r, "sim", sensor, "pass1")
       IN IF W1.pc = "" THEN SimAfterPass(W1, sensor) ELSE Assign(SimTask, W1)
    /\ UNCHANGED <<lock, wsOpen, response, ret, returned, clientId, requests>>

\* the loop resumes after a send_json of one of its two passes
SimResume ==
    /\ pc[SimTask] \in {"pass1", "pass2"}
    /\ ~Blocked(loc[SimTask])
    /\ LET W == World(SimTask)
           l == loc[SimTask]
           s == PassSend(l, channel, wsOpen)
           W1 == [W EXCEPT !.connections = PassRemove(@, l)]
       IN IF l.idx < Len(l.items)
            THEN Assign(SimTask, [W EXCEPT !.channel = s.channel, !.loc = s.loc])
          ELSE IF pc[SimTask] = "pass1"
            THEN SimAfterPass(W1, l.sensor)
          ELSE \E persist \in BOOLEAN : Assign(SimTask, SimPersist(W1, persist))
    /\ UNCHANGED <<lock, wsOpen, response, ret, returned, clientId, requests>>

----------------------------------------------------------------------------
(* _handle_command *)

KnownCommands == {"toggle_pump", "set_pump_speed"}
\* The requests of the clients: a command and params.get("speed"), which is
\* absent (null), an integer, or text that is no number.
Request(command, speed) == [command |-> command, speed |-> speed]
Requests ==
    { Request("toggle_pump", NullV),
      Request("set_pump_speed", IntV(1500)),
      Request("set_pump_speed", StrV("fast")),
      Request("frobnicate", NullV) }

\* the dispatch with a toggle that does not read the current status
DispatchToggleStops(d, command, speed) ==
    LET none == [status |-> "none", state |-> d, patch |-> <<>>, version |-> 0]
    IN IF command = "toggle_pump"
         THEN [kind |-> "applied",
               r |-> ApplyValue(d, <<"equipment", "pump_1", "status">>,
                                StrV("stopped"))]
       ELSE IF command = "set_pump_speed"
         THEN IF speed = NullV \/ IntOk(speed)
                THEN [kind |-> "applied",
                      r |-> ApplyValue(d, <<"equipment", "pump_1", "speed">>,
                                       IntV(IF speed = NullV THEN 1000 ELSE IntOf(speed)))]
                ELSE [kind |-> "value_error", r |-> none]
       ELSE [kind |-> "unknown", r |-> none]

\* the dispatch with a last branch that takes every other command for a toggle
DispatchElseToggles(d, command, speed) ==
    LET current == Get(d, <<"equipment", "pump_1", "status">>).value
        new == IF current = StrV("running") THEN "stopped" ELSE "running"
        none == [status |-> "none", state |-> d, patch |-> <<>>, version |-> 0]
    IN IF command = "set_pump_speed"
         THEN IF speed = NullV \/ IntOk(speed)
                THEN [kind |-> "applied",
                      r |-> ApplyValue(d, <<"equipment", "pump_1", "speed">>,
                                       IntV(IF speed = NullV THEN 1000 ELSE IntOf(speed)))]
                ELSE [kind |-> "value_error", r |-> none]
         ELSE [kind |-> "applied",
               r |-> ApplyValue(d, <<"equipment", "pump_1", "status">>, StrV(new))]

\* the dispatch with a toggle that reads the status from the document last
\* saved and not from the live one
DispatchReadsSaved(d, command, speed) ==
    LET current == Get(persisted, <<"equipment", "pump_1", "status">>).value
        new == IF current = StrV("running") THEN "stopped" ELSE "running"
        none == [status |-> "none", state |-> d, patch |-> <<>>, version |-> 0]
    IN IF command = "toggle_pump"
         THEN [kind |-> "applied",
               r |-> ApplyValue(d, <<"equipment", "pump_1", "status">>, StrV(new))]
       ELSE IF command = "set_pump_speed"
         THEN IF speed = NullV \/ IntOk(speed)
                THEN [kind |-> "applied",
                      r |-> ApplyValue(d, <<"equipment", "pump_1", "speed">>,
                                       IntV(IF speed = NullV THEN 1000 ELSE IntOf(speed)))]
                ELSE [kind |-> "value_error", r |-> none]
       ELSE [kind |-> "unknown", r |-> none]

\* lines 145-153: the dispatch, up to and including apply_value
Dispatch(d, command, speed) ==
    LET current == Get(d, <<"equipment", "pump_1", "status">>).value
        new == IF current = StrV("running") THEN "stopped" ELSE "running"
        none == [status |-> "none", state |-> d, patch |-> <<>>, version |-> 0]
    IN IF command = "toggle_pump"
         THEN [kind |-> "applied",
               r |-> ApplyValue(d, <<"equipment", "pump_1", "status">>, StrV(new))]
       ELSE IF command = "set_pump_speed"
         THEN IF speed = NullV
                THEN [kind |-> "applied",
                      r |-> ApplyValue(d, <<"equipment", "pump_1", "speed">>,
                                       IntV(1000))]
              ELSE IF IntOk(speed)
                THEN [kind |-> "applied",
                      r |-> ApplyValue(d, <<"equipment", "pump_1", "speed">>,
                                       IntV(IntOf(speed)))]
              ELSE [kind |-> "value_error", r |-> none]
       ELSE [kind |-> "unknown", r |-> none]

UnknownDetail(command) == <<"Unknown command: ", command>>

\* _handle_command up to its first suspension. The result is the world and
\* the outcome: "unknown" (HTTPException 400), "error" (any other exception:
\* int() of the speed, or the save of the snapshot), "pass" (suspended in
\* broadcast_patch) or "success" (returned).
HandleCommand(W, command, speed, saveOk) ==
    LET d == Dispatch(W.state, command, speed)
        from == VersionOf(W.state)
        committed == [W EXCEPT !.state = d.r.state,
                               !.log = (d.r.version :>
                                          Entry(d.r, command, from, FALSE, <<>>)) @@ @]
        saved == [W EXCEPT !.persisted = Snapshot(d.r.state)]
        W1 == CommitAndBroadcast(saved, d.r, command, "", "pass")
    IN IF d.kind = "unknown" THEN [outcome |-> "unknown", W |-> W, version |-> 0]
       ELSE IF d.kind = "value_error" \/ d.r.status /= "ok"
         THEN [outcome |-> "error", W |-> W, version |-> 0]
       ELSE IF ~saveOk
         THEN [outcome |-> "error", W |-> committed, version |-> 0]
       ELSE IF W1.pc = "pass"
         THEN [outcome |-> "pass", W |-> W1, version |-> d.r.version]
       ELSE [outcome |-> "success", W |-> [W1 EXCEPT !.pc = W.pc, !.loc = NoLoc],
             version |-> d.r.version]

\* _handle_command resumed after a send_json of its pass: the next send, or
\* the removal and the return of the version.
ResumeCommand(W, backPc) ==
    LET l == W.loc
        s == PassSend(l, W.channel, wsOpen)
    IN IF l.idx < Len(l.items)
         THEN [outcome |-> "pass", W |-> [W EXCEPT !.channel = s.channel, !.loc = s.loc],
               version |-> l.version]
         ELSE [outcome |-> "success",
               W |-> [W EXCEPT !.connections = PassRemove(@, l),
                               !.pc = backPc, !.loc = NoLoc],
               version |-> l.version]

\* the result of a command as its caller sees it
Result(command, h) ==
    [command |-> command,
     status |-> IF h.outcome = "unknown" THEN "unknown_command" ELSE h.outcome,
     detail |-> IF h.outcome = "unknown" THEN UnknownDetail(command) ELSE <<>>,
     version |-> h.version]

\* the save of lines 155-159 is reached, and may fail, when a value was applied
SaveOutcomes(req) ==
    IF req.command \in KnownCommands /\ (req.speed = NullV \/ IntOk(req.speed))
      THEN BOOLEAN ELSE {TRUE}

MayCommit(command) == command \in KnownCommands => VersionOf(state) < MaxVersion

----------------------------------------------------------------------------
(* execute_command: POST /api/command *)

RestCommand(t, command, speed, saveOk) ==
    /\ pc[t] = "idle"
    /\ MayCommit(command)
    /\ Len(requests) < MaxRequests
    /\ requests' = Append(requests, [task |-> t, command |-> command])
    /\ LET h == HandleCommand(World(t), command, speed, saveOk)
       IN /\ Assign(t, h.W)
          /\ response' = [response EXCEPT ![t] = Result(command, h)]
    /\ UNCHANGED <<lock, wsOpen, ret, returned, clientId>>

RestResume(t) ==
    /\ pc[t] = "pass"
    /\ ~Blocked(loc[t])
    /\ LET h == ResumeCommand(World(t), "idle")
       IN /\ Assign(t, h.W)
          /\ response' = [response EXCEPT ![t] = Result(@.command, h)]
    /\ UNCHANGED <<lock, wsOpen, ret, returned, clientId, requests>>

----------------------------------------------------------------------------
(* websocket_endpoint and ConnectionManager.connect *)

\* a client opens /ws/{client_id}; connect suspends in websocket.accept()
WsAccept(w, c) ==
    /\ pc[w] = "idle"
    /\ pc' = [pc EXCEPT ![w] = "accepting"]
    /\ wsOpen' = [wsOpen EXCEPT ![w] = "open"]
    /\ clientId' = [clientId EXCEPT ![w] = c]
    /\ UNCHANGED <<lock, state, persisted, connections, channel, loc, response, log,
                   ret, returned, requests>>

\* connect as if it sent the snapshot first and put the websocket in the
\* registry only after the suspension of send_json
WsRegisterSendFirst(w) ==
    /\ pc[w] \in {"accepting", "registered"}
    /\ LET s == SendJson(channel, wsOpen, w, InitialMsg(Snapshot(state)))
       IN IF pc[w] = "accepting"
            THEN /\ channel' = s.channel
                 /\ pc' = [pc EXCEPT ![w] = IF s.ok THEN "registered" ELSE "done"]
                 /\ UNCHANGED connections
            ELSE /\ connections' = RegSet(connections, ClientIdOf(w), w)
                 /\ pc' = [pc EXCEPT ![w] = "receiving"]
                 /\ UNCHANGED channel
    /\ UNCHANGED <<lock, state, persisted, wsOpen, loc, response, log, ret, returned, clientId,
                   requests>>

\* connect, lines 42-44: the websocket is put in the registry and is sent the
\* snapshot. When send_json raises, connect and the endpoint end with the
\* exception (connect is called outside the try of the endpoint).
WsRegister(w) ==
    /\ pc[w] \in {"accepting", "registered"}
    /\ LET conns == IF pc[w] = "accepting"
                      THEN RegSet(connections, ClientIdOf(w), w) ELSE connections
           s == SendJson(channel, wsOpen, w, InitialMsg(Snapshot(state)))
       IN IF pc[w] = "accepting" /\ SuspendsAtLock
            THEN /\ connections' = conns
                 /\ pc' = [pc EXCEPT ![w] = "registered"]
                 /\ UNCHANGED channel
            ELSE /\ connections' = conns
                 /\ channel' = s.channel
                 /\ pc' = [pc EXCEPT ![w] = IF s.ok THEN "receiving" ELSE "done"]
    /\ UNCHANGED <<lock, state, persisted, wsOpen, loc, response, log, ret, returned, clientId,
                   requests>>

\* the end of the endpoint by an exception: finally disconnect(client_id);
\* the server closes the connection
WsEnd(W, w) ==
    [W EXCEPT !.connections = RegPop(@, {ClientIdOf(w)}), !.pc = "done", !.loc = NoLoc]

\* lines 248-260: a command message is received and handled
WsCommand(w, command, speed, saveOk) ==
    /\ pc[w] = "receiving"
    /\ wsOpen[w] = "open"
    /\ MayCommit(command)
    /\ Len(requests) < MaxRequests
    /\ requests' = Append(requests, [task |-> w, command |-> command])
    /\ LET h == HandleCommand(World(w), command, speed, saveOk)
           s == SendJson(h.W.channel, wsOpen, w, ErrorMsg(UnknownDetail(command)))
       IN /\ Assign(w, IF h.outcome = "unknown" THEN [h.W EXCEPT !.channel = s.channel]
                       ELSE IF h.outcome = "error" THEN WsEnd(h.W, w)
                       ELSE h.W)
          /\ wsOpen' = IF h.outcome = "error" THEN [wsOpen EXCEPT ![w] = "closed"]
                       ELSE wsOpen
    /\ UNCHANGED <<lock, response, ret, returned, clientId>>

WsResume(w) ==
    /\ pc[w] = "pass"
    /\ ~Blocked(loc[w])
    /\ LET h == ResumeCommand(World(w), "receiving")
       IN Assign(w, h.W)
    /\ UNCHANGED <<lock, wsOpen, response, ret, returned, clientId, requests>>

\* the client closes its connection
ClientClose(w) ==
    /\ wsOpen[w] = "open"
    /\ Cardinality({x \in WS : wsOpen[x] = "closed"}) < MaxCloses
    /\ wsOpen' = [wsOpen EXCEPT ![w] = "closed"]
    /\ UNCHANGED <<lock, state, persisted, connections, channel, pc, loc, response, log,
                   ret, returned, clientId, requests>>

\* receive_json raises WebSocketDisconnect: finally disconnect(client_id)
WsDisconnect(w) ==
    /\ pc[w] = "receiving"
    /\ wsOpen[w] \in {"closed", "ended"}
    /\ Assign(w, WsEnd(World(w), w))
    /\ UNCHANGED <<lock, wsOpen, response, ret, returned, clientId, requests>>

----------------------------------------------------------------------------
(* lifespan: the service as it starts on a fresh database *)

Init ==
    /\ state = DefaultState
    /\ persisted = state
    /\ connections = <<>>
    /\ wsOpen = [w \in WS |-> "idle"]
    /\ channel = [w \in WS |-> <<>>]
    /\ pc = [t \in Tasks |-> IF t = SimTask THEN "sleep"
                             ELSE IF t = LifespanTask THEN "serving" ELSE "idle"]
    /\ loc = [t \in Tasks |-> NoLoc]
    /\ response = [t \in RestTasks |-> NoResponse]
    /\ log = (VersionOf(state) :> Entry([state |-> state, patch |-> <<>>], "init",
                                        0, FALSE, <<>>))
    /\ ret = NoRet
    /\ returned = <<>>
    /\ clientId = [w \in WS |-> 0]
    /\ requests = <<>>
    /\ lock = Unlocked

Next ==
    \/ \E sensor \in SimSensors, change \in SimChanges : SimWake(sensor, change)
    \/ SimResume
    \/ \E t \in RestTasks, req \in Requests : \E saveOk \in SaveOutcomes(req) :
            RestCommand(t, req.command, req.speed, saveOk)
    \/ \E t \in RestTasks : RestResume(t)
    \/ \E w \in WS : \E c \in ClientIds(w) : WsAccept(w, c)
    \/ \E w \in WS : WsRegister(w)
    \/ \E w \in WS, req \in Requests : \E saveOk \in SaveOutcomes(req) :
            WsCommand(w, req.command, req.speed, saveOk)
    \/ \E w \in WS : WsResume(w)
    \/ \E w \in WS : ClientClose(w)
    \/ \E w \in WS : WsDisconnect(w)

Spec == Init /\ [][Next]_vars

----------------------------------------------------------------------------
(* lifespan after the yield: the shutdown, and ConnectionManager.close_all *)

\* websocket.close(): the connection is closed; on a connection that is
\* closed already it raises
Close(open, w) ==
    IF open[w] = "open"
      THEN [ok |-> TRUE, open |-> [open EXCEPT ![w] = "ended"]]
      ELSE [ok |-> FALSE, open |-> open]

\* an iteration of the loop of close_all without the try: the exception of
\* close() ends close_all
CloseNextRaises(l, open) ==
    LET r == Close(open, l.items[l.idx + 1].ws)
    IN [loc |-> [l EXCEPT !.idx = @ + 1], wsOpen |-> r.open, raised |-> ~r.ok]

\* One iteration of the loop of close_all (lines 73-77): the exception of
\* close() is caught and dropped.
CloseNext(l, open) ==
    LET r == Close(open, l.items[l.idx + 1].ws)
    IN [loc |-> [l EXCEPT !.idx = @ + 1], wsOpen |-> r.open, raised |-> FALSE]

\* lines 182-187: the simulation task is cancelled at the await it is
\* suspended in (CancelledError is no Exception: a pass in progress ends
\* without its removal), and lifespan waits for it to end
Shutdown ==
    /\ pc[LifespanTask] = "serving"
    /\ pc' = [pc EXCEPT ![LifespanTask] = "stopping", ![SimTask] = "cancelled"]
    /\ loc' = [loc EXCEPT ![SimTask] = NoLoc]
    /\ UNCHANGED <<lock, state, persisted, connections, wsOpen, channel, response,
                   log, ret, returned, clientId, requests>>

\* lines 189-190 and 68-75: the snapshot is saved, close_all takes the items,
\* clears the registry and closes the first item
CloseAll ==
    /\ pc[LifespanTask] = "stopping"
    /\ persisted' = Snapshot(state)
    /\ connections' = <<>>
    /\ LET l0 == [NoLoc EXCEPT !.items = PassItems(connections)]
           c == CloseNext(l0, wsOpen)
       IN IF l0.items = <<>>
            THEN /\ pc' = [pc EXCEPT ![LifespanTask] = "stopped"]
                 /\ loc' = [loc EXCEPT ![LifespanTask] = l0]
                 /\ UNCHANGED wsOpen
            ELSE /\ pc' = [pc EXCEPT ![LifespanTask] =
                                        IF c.raised THEN "failed" ELSE "closing"]
                 /\ loc' = [loc EXCEPT ![LifespanTask] = c.loc]
                 /\ wsOpen' = c.wsOpen
    /\ UNCHANGED <<lock, state, channel, response, log, ret, returned, clientId,
                   requests>>

\* close_all resumes after a close(): the next item, or the return
CloseResume ==
    /\ pc[LifespanTask] = "closing"
    /\ LET l == loc[LifespanTask]
           c == CloseNext(l, wsOpen)
       IN IF l.idx < Len(l.items)
            THEN /\ pc' = [pc EXCEPT ![LifespanTask] =
                                        IF c.raised THEN "failed" ELSE "closing"]
                 /\ loc' = [loc EXCEPT ![LifespanTask] = c.loc]
                 /\ wsOpen' = c.wsOpen
            ELSE /\ pc' = [pc EXCEPT ![LifespanTask] = "stopped"]
                 /\ UNCHANGED <<loc, wsOpen>>
    /\ UNCHANGED <<lock, state, persisted, connections, channel, response, log, ret,
                   returned, clientId, requests>>

ShutdownNext ==
    \/ \E sensor \in SimSensors, change \in SimChanges : SimWake(sensor, change)
    \/ SimResume
    \/ \E w \in WS : \E c \in ClientIds(w) : WsAccept(w, c)
    \/ \E w \in WS : WsRegister(w)
    \/ \E w \in WS : ClientClose(w)
    \/ \E w \in WS : WsDisconnect(w)
    \/ Shutdown
    \/ CloseAll
    \/ CloseResume

\* the service with its observers and the simulation loop, and its shutdown
ShutdownSpec == Init /\ [][ShutdownNext]_vars

----------------------------------------------------------------------------
(* Observers that stop reading *)

\* the client keeps its connection open and stops reading from it
ClientStall(w) ==
    /\ wsOpen[w] = "open"
    /\ pc[w] = "receiving"
    /\ wsOpen' = [wsOpen EXCEPT ![w] = "stalled"]
    /\ UNCHANGED <<lock, state, persisted, connections, channel, pc, loc, response,
                   log, ret, returned, clientId, requests>>

StallNext ==
    \/ \E sensor \in SimSensors, change \in SimChanges : SimWake(sensor, change)
    \/ SimResume
    \/ \E w \in WS : \E c \in ClientIds(w) : WsAccept(w, c)
    \/ \E w \in WS : WsRegister(w)
    \/ \E w \in WS : ClientStall(w)
    \/ \E w \in WS : ClientClose(w)

\* The event loop runs every task that is ready: a task whose await has
\* returned is resumed.
StallFairness ==
    /\ WF_vars(SimResume)
    /\ WF_vars(\E w \in WS : WsRegister(w))

\* the simulation loop and observers that connect, close or stop reading
StallSpec == Init /\ [][StallNext]_vars /\ StallFairness

----------------------------------------------------------------------------
(* Claims about the StateStore, checked under StoreSpec *)

\* C5: the versions returned by a sequence of N successful apply_value calls
\* that starts from a document at version V are exactly V+1, V+2, ..., V+N.
\* (returned restarts, and ret.start is the version of the live document,
\* after any call that failed.)
C5_ReturnedVersionsConsecutive ==
    \A i \in 1..Len(returned) : returned[i] = ret.start + i

\* C6: in every step of apply_value, get and snapshot the version field stays
\* the same or increases by exactly 1, and it increases only in an apply_value
\* call that commits successfully.
C6_VersionStep ==
    [][\/ VersionOf(state') = VersionOf(state)
       \/ /\ VersionOf(state') = VersionOf(state) + 1
          /\ ret'.op = "apply_value"
          /\ ret'.status = "ok"]_vars

\* C7: after every successful apply_value on a document D0, the returned
\* patch applied in list order to D0 gives the document snapshot() returns,
\* the version field included.
C7_DiffCorrect ==
    (ret.op = "apply_value" /\ ret.status = "ok")
        => ApplyPatch(ret.old, ret.patch) = Snapshot(state)

\* C7 witness: a successful call whose patch adds a nested entry and replaces
\* the version.
C7_Witness ==
    /\ ret.op = "apply_value" /\ ret.status = "ok"
    /\ \E i \in 1..Len(ret.patch) : ret.patch[i].op = "add"
    /\ \E i \in 1..Len(ret.patch) : ret.patch[i].op = "replace"
    /\ ret.old /= Snapshot(state)

----------------------------------------------------------------------------
(* Claims about the service, checked under Spec *)

\* what an observer has been sent
Patches(w) == SelectSeq(channel[w], LAMBDA msg : msg.type = "patch")
PatchVersions(w) == [k \in 1..Len(Patches(w)) |-> Patches(w)[k].version]
HasInitial(w) == channel[w] /= <<>> /\ channel[w][1].type = "initial_state"
InitialVersion(w) == VersionOf(channel[w][1].data)
Count(w, v) == Cardinality({k \in 1..Len(channel[w]) :
                              channel[w][k].type = "patch" /\ channel[w][k].version = v})

\* the replica of an observer that started from its initial_state and applied
\* its first k patch messages in arrival order
RECURSIVE Replica(_, _)
Replica(w, k) ==
    IF k = 0 THEN channel[w][1].data
    ELSE ApplyPatch(Replica(w, k - 1), Patches(w)[k].patch)

\* C1: an observer that starts from its initial_state (version V) and applies
\* its patch messages in arrival order holds, after each patch, the document
\* the store held when it committed the version of that patch; the patches
\* are those of the versions V+1, V+2, ..., none missing and none twice.
C1_ReplayConvergence ==
    \A w \in WS : HasInitial(w) =>
        \A k \in 1..Len(Patches(w)) :
            /\ PatchVersions(w)[k] = InitialVersion(w) + k
            /\ Replica(w, k) = log[PatchVersions(w)[k]].doc

\* C2: the versions of the patch messages delivered to an observer that is
\* registered increase by exactly 1 from each message to the next, also when
\* broadcast passes of several callers overlap.
C2_Ordering ==
    \A w \in WS : Registered(connections, w) =>
        \A k \in 1..(Len(PatchVersions(w)) - 1) :
            PatchVersions(w)[k + 1] = PatchVersions(w)[k] + 1

\* the pass that broadcasts version v has not yet come to the observer w
Pending(v, w) ==
    \E t \in Tasks :
        /\ pc[t] \in PassPcs
        /\ loc[t].version = v
        /\ \E i \in (loc[t].idx + 1)..Len(loc[t].items) : loc[t].items[i].ws = w

\* C3: an observer sent an initial_state captured at version V is never sent
\* a patch of a version <= V, and while it stays registered (and its client
\* has not closed the connection) every broadcast of a version > V has it
\* among its items and delivers it that patch, once, when the pass comes to it.
C3_RegistrationNoGapNoOverlap ==
    \A w \in WS : HasInitial(w) =>
        /\ \A k \in 1..Len(PatchVersions(w)) : PatchVersions(w)[k] > InitialVersion(w)
        /\ (Registered(connections, w) /\ wsOpen[w] = "open") =>
              \A v \in DOMAIN log : (v > InitialVersion(w) /\ log[v].bcast) =>
                  /\ w \in log[v].items
                  /\ Count(w, v) = IF Pending(v, w) THEN 0 ELSE 1

\* C3 witness: an observer registered at version 2, while the pass of version
\* 2 was still running, has been delivered the patch of version 3.
C3_Witness ==
    \E w \in WS :
        /\ Registered(connections, w) /\ wsOpen[w] = "open"
        /\ HasInitial(w) /\ InitialVersion(w) = 2
        /\ PatchVersions(w) = <<3>>
        /\ \E t \in Tasks : pc[t] \in PassPcs /\ loc[t].version = 2

\* C4: on every channel the initial_state is the first message and is the
\* only initial_state: no patch precedes it; and a registration that has
\* completed has sent it.
C4_InitialStateFirst ==
    \A w \in WS :
        /\ \A k \in 1..Len(channel[w]) :
              (channel[w][k].type = "initial_state") <=> (k = 1)
        /\ pc[w] \in {"receiving", "pass"} => channel[w] /= <<>>

\* C4 witness: an observer that registered while a pass was running, and was
\* sent its initial_state and then a patch.
C4_Witness ==
    \E w \in WS :
        /\ Len(channel[w]) >= 2
        /\ channel[w][1].type = "initial_state"
        /\ InitialVersion(w) = 2
        /\ channel[w][2].type = "patch"
        /\ \E t \in Tasks : pc[t] \in PassPcs /\ loc[t].version = 2
                             /\ w \notin {loc[t].items[i].ws : i \in 1..Len(loc[t].items)}

\* the operations of the diff of a toggle
StatusOp(value) == Op("replace", <<"equipment", "pump_1", "status">>, StrV(value))
VersionOp(v) == Op("replace", <<"version">>, IntV(v))
Ops(patch) == {patch[i] : i \in 1..Len(patch)}
ToggledAt(v) == v \in DOMAIN log /\ log[v].src = "toggle_pump"
\* the version a successful toggle_pump request was answered with is one
\* that toggle_pump committed
ToggleAnswered ==
    \A t \in RestTasks :
        (response[t].command = "toggle_pump" /\ response[t].status = "success")
            => ToggledAt(response[t].version)

\* C8 as stated: starting from the default document (pump_1 running, version
\* 1) with no other caller, toggle_pump returns version 2 and a diff that is
\* exactly the single operation replace /equipment/pump_1/status "stopped",
\* and a second toggle_pump returns version 3 and a diff that replaces the
\* status by "running".
C8_ToggleSingleOp ==
    /\ ToggleAnswered
    /\ ToggledAt(2) => log[2].patch = <<StatusOp("stopped")>>
    /\ (ToggledAt(2) /\ ToggledAt(3)) => log[3].patch = <<StatusOp("running")>>

\* C8 as amended: the diff of each toggle is exactly two operations, the
\* replace of the status and the replace of /version by the new version.
C8_ToggleTwoOps ==
    /\ ToggleAnswered
    /\ ToggledAt(2) =>
          /\ Len(log[2].patch) = 2
          /\ Ops(log[2].patch) = {StatusOp("stopped"), VersionOp(2)}
    /\ (ToggledAt(2) /\ ToggledAt(3)) =>
          /\ Len(log[3].patch) = 2
          /\ Ops(log[3].patch) = {StatusOp("running"), VersionOp(3)}

\* C8 witness: toggle_pump was executed twice from the default document, the
\* second time through POST /api/command, and was answered version 3.
C8_Witness ==
    /\ ToggledAt(2) /\ ToggledAt(3)
    /\ \E t \in RestTasks :
          /\ response[t].command = "toggle_pump"
          /\ response[t].status = "success"
          /\ response[t].version = 3

\* a step in which a client sends a command that is not known
UnknownSent ==
    /\ Len(requests') = Len(requests) + 1
    /\ requests'[Len(requests')].command \notin KnownCommands

\* C9: a command that is neither toggle_pump nor set_pump_speed fails with an
\* error that names it (the response of the REST request, or a command_error
\* message on the websocket that sent it), and the step changes neither the
\* document (version included) nor the persisted snapshot, commits nothing,
\* starts no broadcast pass and sends no observer a patch.
C9_UnknownCommandIsolation ==
    [][UnknownSent =>
        LET req == requests'[Len(requests')]
            t == req.task
        IN /\ state' = state
           /\ Snapshot(state') = Snapshot(state)
           /\ persisted' = persisted
           /\ log' = log
           /\ loc' = loc
           /\ pc' = pc
           /\ \A w \in WS : Patches(w)' = Patches(w)
           /\ IF t \in RestTasks
                THEN /\ response'[t].status = "unknown_command"
                     /\ response'[t].detail = <<"Unknown command: ", req.command>>
                     /\ channel' = channel
                ELSE /\ Len(channel'[t]) = Len(channel[t]) + 1
                     /\ channel'[t][Len(channel'[t])].type = "command_error"
                     /\ channel'[t][Len(channel'[t])].error
                            = <<"Unknown command: ", req.command>>]_vars

\* C9 witness: after a version was committed, an unknown command was sent
\* both through POST /api/command and over a websocket, and both were
\* answered with the error.
C9_Witness ==
    /\ VersionOf(state) = 2
    /\ \E t \in RestTasks : response[t].status = "unknown_command"
    /\ \E w \in WS : \E k \in 1..Len(channel[w]) : channel[w][k].type = "command_error"

\* the websockets in the registry
RegisteredWs == {connections[i].ws : i \in 1..Len(connections)}
\* the websockets of a pass whose delivery failed
FailedWs(l) == {l.items[i].ws : i \in {j \in 1..Len(l.items) :
                   \E d \in 1..Len(l.disconnected) : l.disconnected[d] = l.items[j].cid}}
\* the task t takes a step of its broadcast pass
PassStep(t) == pc[t] \in PassPcs /\ (pc'[t] /= pc[t] \/ loc'[t] /= loc[t])

\* C10: every step of a broadcast pass but the last sends the next observer
\* captured at the start of the pass the {patch, version} message of the
\* pass or, when that delivery fails, notes the failure and goes on, and
\* leaves the registry as it is; the last step removes from the registry
\* exactly the observers whose delivery failed.
C10_FanOut ==
    [][\A t \in Tasks : PassStep(t) =>
          LET l == loc[t]
              e == l.items[l.idx + 1]
          IN IF l.idx < Len(l.items)
               THEN /\ connections' = connections
                    /\ loc'[t].items = l.items
                    /\ loc'[t].idx = l.idx + 1
                    /\ \/ /\ channel'[e.ws]
                               = Append(channel[e.ws], PatchMsg(l.patch, l.version))
                          /\ loc'[t].disconnected = l.disconnected
                       \/ /\ channel' = channel
                          /\ loc'[t].disconnected = Append(l.disconnected, e.cid)
               ELSE RegisteredWs' = RegisteredWs \ FailedWs(l)]_vars

\* the versions committed by the tasks of the service
Committed == {v \in DOMAIN log : log[v].src /= "init"}

\* C11: every version that apply_value committed, in the simulation loop or
\* in a command, has been handed to broadcast_patch in the same step, and a
\* pass in progress carries the patch and the version of that commit, also
\* when the save between commit and broadcast fails.
C11_EveryCommitBroadcast ==
    /\ \A v \in Committed : log[v].bcast
    /\ \A t \in Tasks : pc[t] \in PassPcs =>
          /\ loc[t].version \in Committed
          /\ loc[t].patch = log[loc[t].version].patch

\* C17: when the validation of apply_value fails, the call raises and
\* returns no patch and no version, and the live document keeps the written
\* leaf, with the mappings created on the way to it, and the incremented
\* version: one more than the version line 52 read, which is that of the
\* document before the call or, for the path "version", the written value.
C17_NoRollback ==
    (ret.op = "apply_value" /\ ret.status = "validation_error") =>
        /\ ret.patch = <<>> /\ ret.version = 0
        /\ IF ParsePath(ret.path) = <<"version">>
             THEN VersionOf(state) = IntOf(ret.arg) + 1
             ELSE /\ Get(state, ret.path) = [ok |-> TRUE, value |-> ret.arg]
                  /\ VersionOf(state) = VersionOf(ret.old) + 1

\* C17 witness: a call that failed validation and left behind the mapping
\* equipment.new_device it had created for its leaf.
C17_Witness ==
    /\ ret.op = "apply_value" /\ ret.status = "validation_error"
    /\ ~Get(ret.old, <<"equipment", "new_device">>).ok
    /\ Get(state, <<"equipment", "new_device", "status">>) = [ok |-> TRUE, value |-> IntV(7)]
    /\ VersionOf(state) = VersionOf(ret.old) + 1

\* the call sets a leaf below a segment that is missing (equipment.new_device)
\* or is no mapping (the number equipment.pump_1.speed), and the document it
\* makes satisfies the schema
Vivifies ==
    /\ ret.op = "apply_value"
    /\ Valid(ret.old)
    /\ \/ /\ ParsePath(ret.path) = <<"equipment", "new_device", "status">>
          /\ ret.arg.k = "str"
          /\ ~Get(ret.old, <<"equipment", "new_device">>).ok
       \/ /\ ParsePath(ret.path) = <<"equipment", "pump_1", "speed", "rpm">>
          /\ Get(ret.old, <<"equipment", "pump_1", "speed">>).value.k /= "map"

\* C18: apply_value makes every intermediate segment that is missing or is no
\* mapping an empty mapping before it sets the leaf: when the document that
\* results satisfies the schema the call succeeds, the nested entry is in the
\* next snapshot, and the version is incremented by 1 and returned.
C18_AutoVivification ==
    Vivifies =>
        /\ ret.status = "ok"
        /\ Get(Snapshot(state), ret.path) = [ok |-> TRUE, value |-> ret.arg]
        /\ VersionOf(Snapshot(state)) = VersionOf(ret.old) + 1
        /\ ret.version = VersionOf(ret.old) + 1

\* C18 witness: both cases have happened, the missing equipment.new_device
\* first and then the number equipment.pump_1.speed.
C18_Witness ==
    /\ Vivifies
    /\ ParsePath(ret.path) = <<"equipment", "pump_1", "speed", "rpm">>
    /\ Get(state, <<"equipment", "new_device", "status">>).ok
    /\ Get(state, <<"equipment", "pump_1", "speed", "rpm">>).ok

\* the toggle_pump executions begun so far; none of them is suspended before
\* its write, so each of them has read and written the status
Toggles == {k \in 1..Len(requests) : requests[k].command = "toggle_pump"}
PumpStatus == Get(state, <<"equipment", "pump_1", "status">>).value

\* C19: the read and the write of a toggle_pump execution are one atomic
\* step, also when the executions overlap (one begins while another is
\* suspended in its broadcast pass): after N executions the status, which
\* starts as "running", has been flipped N times; it is "running" when N is
\* even and "stopped" when N is odd.
C19_NoLostToggle ==
    PumpStatus = StrV(IF Cardinality(Toggles) % 2 = 0 THEN "running" ELSE "stopped")

\* C19 witness: the second of two toggles has read and written while the
\* first is still suspended in its broadcast pass; the status is "running"
\* again.
C19_Witness ==
    /\ Cardinality(Toggles) = 2
    /\ \E t \in CmdTasks :
          /\ pc[t] = "pass"
          /\ ToggledAt(loc[t].version) /\ ToggledAt(loc[t].version + 1)
    /\ PumpStatus = StrV("running")

\* an observer with an open channel whose endpoint waits for its next message
\* or is in a pass of its own
Live(w) == wsOpen[w] = "open" /\ pc[w] \in {"receiving", "pass"}

\* C20: a registered observer whose channel is open and whose endpoint has not
\* disconnected is still registered after every step that registers no other
\* connection, also a step in which an earlier connection with its client_id
\* is removed after a failed delivery or runs its disconnect.
C20_LiveObserverStaysRegistered ==
    [][\A w \in WS :
          (/\ Live(w) /\ Registered(connections, w)
           /\ wsOpen'[w] = "open" /\ pc'[w] \in {"receiving", "pass"}
           /\ RegisteredWs' \subseteq RegisteredWs)
          => Registered(connections', w)]_vars

\* the observers a pass of the simulation loop has yet to send to
Unsent(w) ==
    /\ pc[SimTask] \in PassPcs
    /\ \E i \in (loc[SimTask].idx + 1)..Len(loc[SimTask].items) :
          loc[SimTask].items[i].ws = w
    /\ wsOpen[w] = "open"

\* C15: a broadcast pass of the simulation loop that has begun comes to its
\* end, and an open observer among its items that it has yet to send to is
\* sent the patch, also when an observer among its items has stopped
\* reading.
C15_NoUnboundedWait ==
    /\ (pc[SimTask] \in PassPcs) ~> (pc[SimTask] = "sleep")
    /\ \A w \in WS : Unsent(w) ~> ~Unsent(w)

\* the websockets close_all took from the registry when it started
CloseItems == {loc[LifespanTask].items[i].ws : i \in 1..Len(loc[LifespanTask].items)}

\* C16: close_all takes the observers that are registered when it starts and
\* leaves the registry empty; it returns to its caller without an exception,
\* and when it returns it has called close() for every one of them: none of
\* them is still open, also when a close() before it raised.
C16_CloseAll ==
    [][/\ (pc[LifespanTask] = "stopping" /\ pc'[LifespanTask] /= "stopping") =>
             /\ connections' = <<>>
             /\ loc'[LifespanTask].items = connections
       /\ pc'[LifespanTask] /= "failed"
       /\ pc'[LifespanTask] = "stopped" =>
             /\ loc'[LifespanTask].idx = Len(loc'[LifespanTask].items)
             /\ \A i \in 1..Len(loc'[LifespanTask].items) :
                   wsOpen'[loc'[LifespanTask].items[i].ws] \in {"closed", "ended"}
      ]_vars

\* C16 witness: close_all has returned; the first of its two items had been
\* closed by its client, so that its close() raised, and the second was
\* closed by close_all after that.
C16_Witness ==
    /\ pc[LifespanTask] = "stopped"
    /\ Len(loc[LifespanTask].items) = 2
    /\ wsOpen[loc[LifespanTask].items[1].ws] = "closed"
    /\ wsOpen[loc[LifespanTask].items[2].ws] = "ended"
    /\ connections = <<>>

----------------------------------------------------------------------------
(* Claims about the lock of the StateStore, checked under ThreadSpec *)

InBody(t) == pc[t] \notin {"idle", "lock"}

\* C14: at most one thread is inside the body of apply_value, replace_state,
\* get or snapshot; the live document is changed only by the thread in the
\* body; and an apply_value that reaches its end has done, from the capture
\* of old_state to the diff, what the call does alone on the document it
\* found when it got the lock.
C14_MutualExclusion ==
    /\ Cardinality({t \in Threads : InBody(t)}) <= 1
    /\ \A t \in Threads : InBody(t) => lock.owner = t
    /\ \A t \in Threads :
          (pc[t] = "release" /\ loc[t].op = "apply_value") =>
              LET r == ApplyValue(loc[t].entry, loc[t].path, loc[t].arg)
              IN /\ loc[t].status = r.status
                 /\ loc[t].patch = r.patch
                 /\ loc[t].version = r.version
                 /\ state = r.state

\* C14 witness: one thread is in apply_value between the increment of the
\* version and the validation while another apply_value waits for the lock.
C14_Witness ==
    \E t, u \in Threads :
        /\ pc[t] = "validate" /\ loc[t].op = "apply_value"
        /\ pc[u] = "lock" /\ loc[u].op = "apply_value"
        /\ loc[u].calls = 2

----------------------------------------------------------------------------
(* Claims about replace_state and reads, checked under StoreReplaceSpec *)

\* C12: replace_state with a document that fails validation raises and leaves
\* the live document, its version included, exactly as it was; with a valid
\* document it makes, in the one step, the dump of that document the live
\* document.
C12_ReplaceState ==
    [][(ret'.op = "replace_state" /\ ret'.calls = ret.calls + 1) =>
          IF Valid(ret'.arg)
            THEN /\ ret'.status = "ok"
                 /\ Snapshot(state') = JsonRoundTrip(Normalize(ret'.arg))
                 /\ VersionOf(state') = DumpVersion(ret'.arg).n
            ELSE /\ ret'.status = "validation_error"
                 /\ state' = state
                 /\ VersionOf(state') = VersionOf(state)]_vars

\* C12 witness: a replace_state that failed on a document an earlier
\* replace_state had installed.
C12_Witness ==
    /\ ret.op = "replace_state" /\ ret.status = "validation_error"
    /\ VersionOf(state) = 5
    /\ ret.old = Snapshot(state)

\* C13: the document snapshot() returns, and the value get() returns, is that
\* of the document the store was constructed with or of a document a
\* successfully completed apply_value or replace_state produced, never of a
\* document a failed mutation left behind.
C13_ReadConsistency ==
    /\ (ret.op = "snapshot") => ret.value \in ret.good
    /\ (ret.op = "get" /\ ret.status = "ok") =>
          \E g \in ret.good : Get(g, ret.path) = [ok |-> TRUE, value |-> ret.value]

====
